---- MODULE Spec2Model ----
(***************************************************************************)
(* pokesprite: RGBA pixel grids rendered as ANSI terminal art.             *)
(*                                                                         *)
(* An ImageArray (numpy, shape (height, width, 4), dtype uint8) is a       *)
(* record [height, width, px] with px[y][x] the pixel of row y, column x,   *)
(* both counted from 0 as in the source.  A pixel is the tuple             *)
(* <<r, g, b, a>>.  A Python str is a sequence of tokens, each token a     *)
(* tuple of integers: <<c>> is the character with code point c and         *)
(* <<27, n1, ..., nk>> is the escape sequence ESC [ n1 ; ... ; nk m.       *)
(***************************************************************************)
EXTENDS Integers, Sequences, FiniteSets, TLC

VARIABLES
    decoded,    \* the grid as it was handed to the call (the preparation steps
                \* write into their argument, so this keeps the value before)
    array,      \* the grid the call works on and, for a preparation step, returns
    threshold,  \* the threshold argument of array_to_dots_art
    result,     \* the str a renderer returns
    pc,         \* "decoded", then the call made: "small", "large", "dots",
                \* "fixed", "trimmed", or "ValueError" when it raised
    args,       \* the options of image.get_image_array: transparency_color,
                \* box_area, resize_factor (None when not given)
    pos,        \* the read position of the BytesIO handed to get_image_array
    steps,      \* the steps get_image_array has applied so far, in order
    first,      \* the arguments and the outcome of an earlier get_image_array
    files,      \* the cached PNG and the two text files of one sprite, each
                \* None while it does not exist
    locals,     \* txt_small_exists and txt_large_exists of
                \* generate_pokemon_sprite_ansi_file
    before,     \* the files as they were when the call began
    value,      \* the argument of parse_color_hex
    parsed      \* what parse_color_hex returned, or that it raised

prepVars == <<args, pos, steps, first>>
fileVars == <<files, locals, before>>
colorVars == <<value, parsed>>

vars ==
    <<decoded, array, threshold, result, pc, args, pos, steps, first, files, locals, before,
      value, parsed>>

(***************************************************************************)
(* Bounds of the model.                                                    *)
(***************************************************************************)
MaxHeight == 5
MaxWidth == 3
MaxArtHeight == 8
MaxArtWidth == 4
MaxPrepHeight == 2
MaxPrepWidth == 2
MaxColorLen == 7

(***************************************************************************)
(* Pixels and grids the inputs are drawn from.                             *)
(***************************************************************************)
Pixels ==
    { <<255, 0, 0, 0>>,
      <<0, 0, 0, 255>>,
      <<255, 255, 255, 129>>,
      <<0, 0, 255, 128>>,
      <<10, 20, 30, 127>> }

Cells(h, w) == (0 .. h - 1) \X (0 .. w - 1)

\* The grid of shape (h, w) holding p1 in rows y0..y1, columns x0..x1 and
\* p0 everywhere else.
Grid(h, w, p0, p1, y0, y1, x0, x1) ==
    [ height |-> h,
      width |-> w,
      px |-> [ y \in 0 .. h - 1 |->
                 [ x \in 0 .. w - 1 |->
                     IF y0 <= y /\ y <= y1 /\ x0 <= x /\ x <= x1 THEN p1 ELSE p0 ] ] ]

\* The rectangles y0..y1, x0..x1 of a grid of shape (h, w); for an empty grid,
\* the one empty rectangle.
Rects(h, w) ==
    IF h = 0 \/ w = 0
    THEN { <<0, -1, 0, -1>> }
    ELSE { r \in (0 .. h - 1) \X (0 .. h - 1) \X (0 .. w - 1) \X (0 .. w - 1) :
             r[1] <= r[2] /\ r[3] <= r[4] }

\* The full-width bands of rows y0..y1 and the single cells of a grid of
\* shape (h, w).
BandsAndCells(h, w) ==
    IF h = 0 \/ w = 0
    THEN { <<0, -1, 0, -1>> }
    ELSE { <<r[1], r[2], 0, w - 1>> : r \in { q \in (0 .. h - 1) \X (0 .. h - 1) : q[1] <= q[2] } }
         \cup { <<c[1], c[1], c[2], c[2]>> : c \in Cells(h, w) }

(***************************************************************************)
(* ansi.py                                                                 *)
(***************************************************************************)
ESC == 27
ANSI_RESET_CODE == << <<ESC, 0>> >>
UPPER_BLOCK == << <<9600>> >>
LOWER_BLOCK == << <<9604>> >>
EMPTY_BLOCK == << <<32>> >>
SOLID_BLOCK == << <<9608>>, <<9608>> >>
WIDE_EMPTY_BLOCK == << <<32>>, <<32>> >>
NEWLINE == << <<10>> >>

\* raise ValueError inside a renderer: a token that is no character and no
\* escape, which the calling action turns into the call's failure.
RAISE_ValueError == << <<-1>> >>
Raised(txt) == \E i \in DOMAIN txt : txt[i] = <<-1>>

ansi_color_code(r, g, b, background) ==
    << <<ESC, IF background THEN 48 ELSE 38, 2, r, g, b>> >>

\* pixel_pair_to_ansi_block without its first test, for the pair of two
\* transparent pixels.
pixel_pair_without_empty_case(upper_pixel, lower_pixel) ==
    LET upper_pixel_a == upper_pixel[4]
        lower_pixel_a == lower_pixel[4]
    IN  IF upper_pixel_a # 0
        THEN LET code1 == ansi_color_code(upper_pixel[1], upper_pixel[2], upper_pixel[3], FALSE)
                 code2 == IF lower_pixel_a # 0
                          THEN ansi_color_code(lower_pixel[1], lower_pixel[2], lower_pixel[3], TRUE)
                          ELSE << >>
             IN  ANSI_RESET_CODE \o code1 \o code2 \o UPPER_BLOCK
        ELSE IF lower_pixel_a # 0
        THEN ANSI_RESET_CODE
             \o ansi_color_code(lower_pixel[1], lower_pixel[2], lower_pixel[3], FALSE)
             \o LOWER_BLOCK
        ELSE RAISE_ValueError

\* pixel_pair_to_ansi_block with the two colours of a fully visible pair
\* handed to the wrong escapes.
pixel_pair_swapped(upper_pixel, lower_pixel) ==
    IF upper_pixel[4] = 0 /\ lower_pixel[4] = 0
    THEN ANSI_RESET_CODE \o EMPTY_BLOCK
    ELSE IF upper_pixel[4] # 0
    THEN IF lower_pixel[4] # 0
         THEN ANSI_RESET_CODE
              \o ansi_color_code(lower_pixel[1], lower_pixel[2], lower_pixel[3], FALSE)
              \o ansi_color_code(upper_pixel[1], upper_pixel[2], upper_pixel[3], TRUE)
              \o UPPER_BLOCK
         ELSE ANSI_RESET_CODE
              \o ansi_color_code(upper_pixel[1], upper_pixel[2], upper_pixel[3], FALSE)
              \o UPPER_BLOCK
    ELSE ANSI_RESET_CODE
         \o ansi_color_code(lower_pixel[1], lower_pixel[2], lower_pixel[3], FALSE)
         \o LOWER_BLOCK

pixel_pair_to_ansi_block(upper_pixel, lower_pixel) ==
    LET upper_pixel_a == upper_pixel[4]
        lower_pixel_a == lower_pixel[4]
    IN  IF upper_pixel_a = 0 /\ lower_pixel_a = 0
        THEN ANSI_RESET_CODE \o EMPTY_BLOCK
        ELSE IF upper_pixel_a # 0
        THEN LET code1 == ansi_color_code(upper_pixel[1], upper_pixel[2], upper_pixel[3], FALSE)
                 code2 == IF lower_pixel_a # 0
                          THEN ansi_color_code(lower_pixel[1], lower_pixel[2], lower_pixel[3], TRUE)
                          ELSE << >>
             IN  ANSI_RESET_CODE \o code1 \o code2 \o UPPER_BLOCK
        ELSE IF lower_pixel_a # 0
        THEN ANSI_RESET_CODE
             \o ansi_color_code(lower_pixel[1], lower_pixel[2], lower_pixel[3], FALSE)
             \o LOWER_BLOCK
        ELSE RAISE_ValueError

\* for row in array: the rows of the grid, top to bottom, each the sequence
\* of its pixels.
Rows(arr) ==
    [ y \in 1 .. arr.height |-> [ x \in 1 .. arr.width |-> arr.px[y - 1][x - 1] ] ]

\* rows_pair_from pairing every row with the next one (zip(arr, arr[1:])).
RECURSIVE rows_pair_sliding(_)
rows_pair_sliding(rows) ==
    IF Len(rows) < 2
    THEN << >>
    ELSE << <<rows[1], rows[2]>> >> \o rows_pair_sliding(Tail(rows))

\* zip(*([iter(arr)] * 2)): one iterator consumed two rows at a time; zip
\* stops as soon as the iterator cannot fill a pair.
RECURSIVE rows_pair_from(_)
rows_pair_from(rows) ==
    IF Len(rows) < 2
    THEN << >>
    ELSE << <<rows[1], rows[2]>> >> \o rows_pair_from(SubSeq(rows, 3, Len(rows)))

rows_pair(arr) == rows_pair_from(Rows(arr))

\* zip(upper_row, lower_row): stops at the shorter of the two.
RECURSIVE small_line(_, _)
small_line(upper_row, lower_row) ==
    IF Len(upper_row) = 0 \/ Len(lower_row) = 0
    THEN << >>
    ELSE pixel_pair_to_ansi_block(Head(upper_row), Head(lower_row))
         \o small_line(Tail(upper_row), Tail(lower_row))

RECURSIVE small_lines(_)
small_lines(pairs) ==
    IF Len(pairs) = 0
    THEN << >>
    ELSE small_line(pairs[1][1], pairs[1][2]) \o ANSI_RESET_CODE \o NEWLINE
         \o small_lines(Tail(pairs))

array_to_ansi_art_small(arr) == small_lines(rows_pair(arr)) \o ANSI_RESET_CODE

\* large_pixel drawing only the pixels above the dot renderer's threshold.
large_pixel_thresholded(pixel) ==
    IF pixel[4] <= 127
    THEN WIDE_EMPTY_BLOCK
    ELSE ansi_color_code(pixel[1], pixel[2], pixel[3], FALSE) \o SOLID_BLOCK

large_pixel(pixel) ==
    IF pixel[4] = 0
    THEN WIDE_EMPTY_BLOCK
    ELSE ansi_color_code(pixel[1], pixel[2], pixel[3], FALSE) \o SOLID_BLOCK

RECURSIVE large_line(_)
large_line(row) ==
    IF Len(row) = 0 THEN << >> ELSE large_pixel(Head(row)) \o large_line(Tail(row))

RECURSIVE large_lines(_)
large_lines(rows) ==
    IF Len(rows) = 0
    THEN << >>
    ELSE large_line(Head(rows)) \o ANSI_RESET_CODE \o NEWLINE \o large_lines(Tail(rows))

\* array_to_ansi_art_large without the final reset.
array_to_ansi_art_large_unclosed(arr) == large_lines(Rows(arr))

array_to_ansi_art_large(arr) == large_lines(Rows(arr)) \o ANSI_RESET_CODE

(***************************************************************************)
(* dots.py                                                                 *)
(***************************************************************************)
dots_TRANSPARENCY_THRESHOLD == 127

\* WEIGHTS with every position weighing the same.
WEIGHTS_uniform ==
    << << <<1, 1, 1>>, <<1, 1, 1>> >>,
       << <<1, 1, 1>>, <<1, 1, 1>> >>,
       << <<1, 1, 1>>, <<1, 1, 1>> >>,
       << <<1, 1, 1>>, <<1, 1, 1>> >> >>

\* WEIGHTS[dy + 1][dx + 1][c]: shape (4, 2, 3), the shape of one block of
\* rgb_array.
WEIGHTS ==
    << << <<1, 1, 1>>, <<1, 1, 1>> >>,
       << <<2, 2, 2>>, <<2, 2, 2>> >>,
       << <<2, 2, 2>>, <<2, 2, 2>> >>,
       << <<1, 1, 1>>, <<1, 1, 1>> >> >>

\* DOTS[i + 1] = (dx, dy) of bit i.
DOTS ==
    << <<0, 0>>, <<0, 1>>, <<0, 2>>, <<1, 0>>, <<1, 1>>, <<1, 2>>, <<0, 3>>, <<1, 3>> >>

\* block | (1 << i): bit i of block is set, the other bits are kept.
BitOrShift(block, i) ==
    IF (block \div (2 ^ i)) % 2 = 1 THEN block ELSE block + 2 ^ i

\* Sums over the block rgb_array[y : y + 4, x : x + 2], position by position.
RECURSIVE weighted_sum(_, _, _, _, _)
weighted_sum(arr, y, x, c, k) ==
    IF k = 8
    THEN 0
    ELSE LET dy == k \div 2
             dx == k % 2
         IN  arr.px[y + dy][x + dx][c] * WEIGHTS[dy + 1][dx + 1][c]
             + weighted_sum(arr, y, x, c, k + 1)

RECURSIVE weights_sum(_, _)
weights_sum(c, k) ==
    IF k = 8
    THEN 0
    ELSE WEIGHTS[(k \div 2) + 1][(k % 2) + 1][c] + weights_sum(c, k + 1)

\* np_average over the visible pixels of the block only.
RECURSIVE visible_sum(_, _, _, _, _, _)
visible_sum(arr, y, x, c, k, weighted) ==
    IF k = 8
    THEN 0
    ELSE LET dy == k \div 2
             dx == k % 2
             p == arr.px[y + dy][x + dx]
         IN  (IF p[4] > 127
              THEN WEIGHTS[dy + 1][dx + 1][c] * (IF weighted THEN p[c] ELSE 1)
              ELSE 0)
             + visible_sum(arr, y, x, c, k + 1, weighted)

np_average_visible(arr, y, x, c) ==
    IF visible_sum(arr, y, x, c, 0, FALSE) = 0
    THEN 0
    ELSE visible_sum(arr, y, x, c, 0, TRUE) \div visible_sum(arr, y, x, c, 0, FALSE)

\* np.average(block, axis=(0, 1), weights=WEIGHTS).astype(int), channel c:
\* the products and both sums are taken in float64 (exact for these sizes),
\* and astype(int) truncates the quotient, which is not negative.
np_average(arr, y, x, c) == weighted_sum(arr, y, x, c, 0) \div weights_sum(c, 0)

\* dots_mask with the comparison not strict.
dots_mask_not_strict(arr, th, y, x) == arr.px[y][x][4] >= th

\* mask = alpha_channel > threshold
dots_mask(arr, th, y, x) == arr.px[y][x][4] > th

\* for i, (dx, dy) in enumerate(DOTS): if mask[y + dy, x + dx]: block |= 1 << i
RECURSIVE dots_block(_, _, _, _, _, _)
dots_block(arr, th, y, x, i, block) ==
    IF i = Len(DOTS)
    THEN block
    ELSE LET dx == DOTS[i + 1][1]
             dy == DOTS[i + 1][2]
         IN  dots_block(arr, th, y, x, i + 1,
                        IF dots_mask(arr, th, y + dy, x + dx)
                        THEN BitOrShift(block, i)
                        ELSE block)

dots_glyph(arr, th, y, x) ==
    << <<ESC, 38, 2, np_average(arr, y, x, 1), np_average(arr, y, x, 2),
         np_average(arr, y, x, 3)>>,
       <<dots_block(arr, th, y, x, 0, 10240)>> >>

\* dots_line with the bound of the row range (width // 4 * 4).
RECURSIVE dots_line_by_four(_, _, _, _)
dots_line_by_four(arr, th, y, x) ==
    IF x >= (arr.width \div 4) * 4
    THEN << >>
    ELSE dots_glyph(arr, th, y, x) \o dots_line_by_four(arr, th, y, x + 2)

\* for x in range(0, width // 2 * 2, 2)
RECURSIVE dots_line(_, _, _, _)
dots_line(arr, th, y, x) ==
    IF x >= (arr.width \div 2) * 2
    THEN << >>
    ELSE dots_glyph(arr, th, y, x) \o dots_line(arr, th, y, x + 2)

\* for y in range(0, height // 4 * 4, 4)
RECURSIVE dots_lines(_, _, _)
dots_lines(arr, th, y) ==
    IF y >= (arr.height \div 4) * 4
    THEN << >>
    ELSE dots_line(arr, th, y, 0) \o ANSI_RESET_CODE \o NEWLINE
         \o dots_lines(arr, th, y + 4)

array_to_dots_art(arr, th) == dots_lines(arr, th, 0) \o ANSI_RESET_CODE

(***************************************************************************)
(* image.py                                                                *)
(***************************************************************************)
image_TRANSPARENCY_THRESHOLD == 128

Min(a, b) == IF a <= b THEN a ELSE b
Max(a, b) == IF a >= b THEN a ELSE b

SetMin(S) == CHOOSE m \in S : \A n \in S : m <= n
SetMax(S) == CHOOSE m \in S : \A n \in S : m >= n

\* array[upper:lower, left:right] for bounds that are not negative: numpy
\* clips each bound to the extent, and an empty range gives extent 0.
np_slice(arr, upper, lower, left, right) ==
    LET u == Min(upper, arr.height)
        l == Min(left, arr.width)
        h == Max(0, Min(lower, arr.height) - u)
        w == Max(0, Min(right, arr.width) - l)
    IN  [ height |-> h,
          width |-> w,
          px |-> [ y \in 0 .. h - 1 |-> [ x \in 0 .. w - 1 |-> arr.px[u + y][l + x] ] ] ]

\* fix_alpha_channel that clears the alphas below the threshold and leaves
\* the others as they are.
fix_alpha_channel_floor(arr, th) ==
    [ arr EXCEPT !.px =
        [ y \in 0 .. arr.height - 1 |->
            [ x \in 0 .. arr.width - 1 |->
                [ arr.px[y][x] EXCEPT ![4] = IF arr.px[y][x][4] < th THEN 0 ELSE arr.px[y][x][4] ] ] ] ]

\* fix_alpha_channel with the threshold itself counted as transparent.
fix_alpha_channel_inclusive(arr, th) ==
    [ arr EXCEPT !.px =
        [ y \in 0 .. arr.height - 1 |->
            [ x \in 0 .. arr.width - 1 |->
                [ arr.px[y][x] EXCEPT ![4] = IF arr.px[y][x][4] <= th THEN 0 ELSE 255 ] ] ] ]

\* array[:, :, 3] = np.where(alpha < threshold, 0, 255)
fix_alpha_channel(arr, th) ==
    [ arr EXCEPT !.px =
        [ y \in 0 .. arr.height - 1 |->
            [ x \in 0 .. arr.width - 1 |->
                [ arr.px[y][x] EXCEPT ![4] = IF arr.px[y][x][4] < th THEN 0 ELSE 255 ] ] ] ]

\* ys, xs = np.where(alpha > threshold): the cells of the mask.
np_where(arr, th) == { c \in Cells(arr.height, arr.width) : arr.px[c[1]][c[2]][4] > th }

\* trim_array with exclusive lower and right bounds (no + 1).
trim_array_exclusive(arr, th) ==
    LET ys == { c[1] : c \in np_where(arr, th) }
        xs == { c[2] : c \in np_where(arr, th) }
    IN  np_slice(arr, Max(SetMin(ys), 0), Min(arr.height, SetMax(ys)),
                 Max(SetMin(xs), 0), Min(arr.width, SetMax(xs)))

\* trim_array past the reductions, which need a non-empty np_where.
trim_array(arr, th) ==
    LET ys == { c[1] : c \in np_where(arr, th) }
        xs == { c[2] : c \in np_where(arr, th) }
        y_min == SetMin(ys)
        y_max == SetMax(ys)
        x_min == SetMin(xs)
        x_max == SetMax(xs)
        upper == Max(y_min, 0)
        left == Max(x_min, 0)
        lower == Min(arr.height, y_max) + 1
        right == Min(arr.width, x_max) + 1
    IN  np_slice(arr, upper, lower, left, right)

(***************************************************************************)
(* main.py, trim_array: the copy the custom-image path uses.               *)
(***************************************************************************)
main_TRANSPARENCY_THRESHOLD == 128

\* lower = min(array.shape[0], y_max); right = min(array.shape[1], x_max);
\* return array[upper:lower, left:right]
main_trim_array(arr, th) ==
    LET ys == { c[1] : c \in np_where(arr, th) }
        xs == { c[2] : c \in np_where(arr, th) }
        y_min == SetMin(ys)
        y_max == SetMax(ys)
        x_min == SetMin(xs)
        x_max == SetMax(xs)
        upper == Max(y_min, 0)
        left == Max(x_min, 0)
        lower == Min(arr.height, y_max)
        right == Min(arr.width, x_max)
    IN  np_slice(arr, upper, lower, left, right)

(***************************************************************************)
(* image.py, get_image_array.  An optional argument is None or <<v>>.      *)
(***************************************************************************)
None == << >>
Some(v) == <<v>>

\* The colours a call keys on.
Colors == { <<0, 0, 255>>, <<0, 0, 0>> }

NoArgs == [ transparency_color |-> None, box_area |-> None, resize_factor |-> None ]

Empty == [ height |-> 0, width |-> 0, px |-> [ y \in {} |-> << >> ] ]

\* Image.open that reads on from where an earlier read left the buffer:
\* nothing is left to decode once the buffer was read.
Image_open_unseeked(data, position) == IF position = 0 THEN data ELSE Empty

\* Image.open(buf).convert("RGBA"): Image.open seeks to the start of the
\* buffer before it reads, so the image is that of the whole data whatever
\* position an earlier read left.
Image_open(data, position) == data

\* The position of the buffer after the image was loaded from it.
EndOf(data) == data.height * data.width + 1

Inverted(box) == box[3] < box[1] \/ box[4] < box[2]

InRange(im, box) ==
    /\ 0 <= box[1] /\ box[1] <= box[3] /\ box[3] <= im.width
    /\ 0 <= box[2] /\ box[2] <= box[4] /\ box[4] <= im.height

\* image.crop with the right and lower bounds included.
Image_crop_inclusive(im, box) ==
    LET h == Min(box[4] + 1, im.height) - box[2]
        w == Min(box[3] + 1, im.width) - box[1]
    IN  [ height |-> h,
          width |-> w,
          px |-> [ y \in 0 .. h - 1 |->
                     [ x \in 0 .. w - 1 |->
                         IF /\ 0 <= box[2] + y /\ box[2] + y < im.height
                            /\ 0 <= box[1] + x /\ box[1] + x < im.width
                         THEN im.px[box[2] + y][box[1] + x]
                         ELSE <<0, 0, 0, 0>> ] ] ]

\* image.crop(box_area) for a box that is not inverted (Pillow raises
\* ValueError for one that is): the region of extent (right - left,
\* lower - upper) whose cell (y, x) is the cell (upper + y, left + x) of the
\* image, and a transparent black pixel where that cell is outside the image.
Image_crop(im, box) ==
    LET h == box[4] - box[2]
        w == box[3] - box[1]
    IN  [ height |-> h,
          width |-> w,
          px |-> [ y \in 0 .. h - 1 |->
                     [ x \in 0 .. w - 1 |->
                         IF /\ 0 <= box[2] + y /\ box[2] + y < im.height
                            /\ 0 <= box[1] + x /\ box[1] + x < im.width
                         THEN im.px[box[2] + y][box[1] + x]
                         ELSE <<0, 0, 0, 0>> ] ] ]

\* A resize that keeps the extent of the image.
Image_resize_same_size(im, factor) == im

\* image.resize((width * resize_factor, height * resize_factor), HAMMING):
\* the extent is multiplied by the factor; a resize to the same extent
\* returns a copy.  The filter is a smoothing one of which the model keeps
\* the extent and the source cell of each target cell, not the blending of
\* neighbouring cells.
Image_resize(im, factor) ==
    [ height |-> im.height * factor,
      width |-> im.width * factor,
      px |-> [ y \in 0 .. im.height * factor - 1 |->
                 [ x \in 0 .. im.width * factor - 1 |->
                     im.px[y \div factor][x \div factor] ] ] ]

\* set_transparent_color matching on the red channel alone.
set_transparent_color_red(arr, color) ==
    [ arr EXCEPT !.px =
        [ y \in 0 .. arr.height - 1 |->
            [ x \in 0 .. arr.width - 1 |->
                IF arr.px[y][x][1] = color[1]
                THEN [ arr.px[y][x] EXCEPT ![4] = 0 ]
                ELSE arr.px[y][x] ] ] ]

\* mask = np.all(rgb == color, axis=-1); array[mask, 3] = 0
set_transparent_color(arr, color) ==
    [ arr EXCEPT !.px =
        [ y \in 0 .. arr.height - 1 |->
            [ x \in 0 .. arr.width - 1 |->
                IF /\ arr.px[y][x][1] = color[1]
                   /\ arr.px[y][x][2] = color[2]
                   /\ arr.px[y][x][3] = color[3]
                THEN [ arr.px[y][x] EXCEPT ![4] = 0 ]
                ELSE arr.px[y][x] ] ] ]

(***************************************************************************)
(* Two state machines over the same operations.  Under Spec a grid is     *)
(* decoded and one of the two block renderers or one preparation step is   *)
(* applied to it; under SpecRender a (larger) grid is decoded and one of   *)
(* the three renderers is applied to it.  SpecPrep, SpecFiles and          *)
(* SpecColor follow further down.                                          *)
(***************************************************************************)
\* No get_image_array call, no sprite file and no colour string is involved.
NoPrep == args = NoArgs /\ pos = 0 /\ steps = << >> /\ first = None
NoFiles ==
    /\ files = [ png |-> None, txt_small |-> None, txt_large |-> None ]
    /\ locals = [ txt_small_exists |-> FALSE, txt_large_exists |-> FALSE ]
    /\ before = files
NoColor == value = << >> /\ parsed = None

Start(grid) ==
    /\ decoded = grid
    /\ array = grid
    /\ threshold = dots_TRANSPARENCY_THRESHOLD
    /\ result = << >>
    /\ pc = "decoded"
    /\ NoPrep /\ NoFiles /\ NoColor

Init ==
    \E h \in 0 .. MaxHeight, w \in 0 .. MaxWidth, p0 \in Pixels, p1 \in Pixels :
       \E r \in Rects(h, w) :
          Start(Grid(h, w, p0, p1, r[1], r[2], r[3], r[4]))

InitRender ==
    \E h \in 0 .. MaxArtHeight, w \in 0 .. MaxArtWidth, p0 \in Pixels, p1 \in Pixels :
       \E r \in BandsAndCells(h, w) :
          Start(Grid(h, w, p0, p1, r[1], r[2], r[3], r[4]))

\* The call raises when a pixel pair does, and returns nothing then.
RenderSmall ==
    /\ pc = "decoded"
    /\ LET txt == array_to_ansi_art_small(array)
       IN  IF Raised(txt)
           THEN pc' = "ValueError" /\ UNCHANGED result
           ELSE pc' = "small" /\ result' = txt
    /\ UNCHANGED <<decoded, array, threshold, prepVars, fileVars, colorVars>>

RenderLarge ==
    /\ pc = "decoded"
    /\ result' = array_to_ansi_art_large(array)
    /\ pc' = "large"
    /\ UNCHANGED <<decoded, array, threshold, prepVars, fileVars, colorVars>>

Thresholds == { 0, dots_TRANSPARENCY_THRESHOLD, 128 }

RenderDots ==
    /\ pc = "decoded"
    /\ \E th \in Thresholds :
         /\ threshold' = th
         /\ result' = array_to_dots_art(array, th)
    /\ pc' = "dots"
    /\ UNCHANGED <<decoded, array, prepVars, fileVars, colorVars>>

FixAlpha ==
    /\ pc = "decoded"
    /\ array' = fix_alpha_channel(array, image_TRANSPARENCY_THRESHOLD)
    /\ pc' = "fixed"
    /\ UNCHANGED <<decoded, threshold, result, prepVars, fileVars, colorVars>>

\* ys.min() raises ValueError on an empty ys: no grid is returned.
Trim ==
    /\ pc = "decoded"
    /\ IF np_where(array, image_TRANSPARENCY_THRESHOLD) = {}
       THEN /\ pc' = "ValueError"
            /\ UNCHANGED array
       ELSE /\ pc' = "trimmed"
            /\ array' = trim_array(array, image_TRANSPARENCY_THRESHOLD)
    /\ UNCHANGED <<decoded, threshold, result, prepVars, fileVars, colorVars>>

\* set_transparent_color(array, color=transparency_color) on its own.
SetTransparentColor ==
    /\ pc = "decoded"
    /\ \E color \in Colors :
         /\ args' = [ args EXCEPT !.transparency_color = Some(color) ]
         /\ array' = set_transparent_color(array, color)
    /\ pc' = "transparent"
    /\ UNCHANGED <<decoded, threshold, result, pos, steps, first, fileVars, colorVars>>

\* main.trim_array(array); ys.min() raises ValueError on an empty ys.
MainTrim ==
    /\ pc = "decoded"
    /\ IF np_where(array, main_TRANSPARENCY_THRESHOLD) = {}
       THEN /\ pc' = "main ValueError"
            /\ UNCHANGED array
       ELSE /\ pc' = "main trimmed"
            /\ array' = main_trim_array(array, main_TRANSPARENCY_THRESHOLD)
    /\ UNCHANGED <<decoded, threshold, result, prepVars, fileVars, colorVars>>

Next ==
    \/ RenderSmall
    \/ RenderLarge
    \/ FixAlpha
    \/ Trim
    \/ SetTransparentColor
    \/ MainTrim

Spec == Init /\ [][Next]_vars

\* SpecPair: array_to_ansi_art_small on the grids of two rows and one
\* column, a pair of pixels of every alpha a uint8 holds.
MaxChannel == 255

InitPair ==
    \E upper_pixel_a \in 0 .. MaxChannel, lower_pixel_a \in 0 .. MaxChannel :
       Start([ height |-> 2,
               width |-> 1,
               px |-> [ y \in 0 .. 1 |->
                          [ x \in 0 .. 0 |->
                              IF y = 0
                              THEN <<10, 20, 30, upper_pixel_a>>
                              ELSE <<0, 0, 255, lower_pixel_a>> ] ] ])

NextPair == RenderSmall

SpecPair == InitPair /\ [][NextPair]_vars

NextRender ==
    \/ RenderSmall
    \/ RenderLarge
    \/ RenderDots

SpecRender == InitRender /\ [][NextRender]_vars

(***************************************************************************)
(* SpecPrep: image.get_image_array, one statement at a time, on a buffer   *)
(* holding an image of extent at least 1 x 1; when a call has ended the    *)
(* same buffer is handed to a further call.                                *)
(***************************************************************************)
\* The pixel a grid holds outside its rectangle: transparent, or of the
\* colour the calls key on.
Backgrounds == { <<255, 0, 0, 0>>, <<0, 0, 255, 128>> }

\* Boxes (left, upper, right, lower) for an image of shape (h, w): inside the
\* image, reaching over its edges, and inverted.
Boxes(h, w) ==
    { <<0, 0, w, h>>, <<1, 0, w, h>>, <<0, 1, w, h>>, <<0, 0, 1, 1>>,
      <<-1, 0, w, h>>, <<0, -1, w, h>>, <<0, 0, w + 1, h>>, <<0, 0, w, h + 1>>,
      <<1, 0, 0, h>>, <<0, 1, w, 0>> }

Factors == { 2 }

Optional(S) == { None } \cup { Some(v) : v \in S }

PrepArgs(h, w) ==
    [ transparency_color : Optional({ <<0, 0, 255>> }),
      box_area : Optional(Boxes(h, w)),
      resize_factor : Optional(Factors) ]

InitPrep ==
    \E h \in 1 .. MaxPrepHeight, w \in 1 .. MaxPrepWidth, p0 \in Backgrounds, p1 \in Pixels :
       \E r \in Rects(h, w), a \in PrepArgs(h, w) :
          /\ decoded = Grid(h, w, p0, p1, r[1], r[2], r[3], r[4])
          /\ array = Empty
          /\ threshold = dots_TRANSPARENCY_THRESHOLD
          /\ result = << >>
          /\ pc = "call"
          /\ args = a
          /\ pos = 0
          /\ steps = << >>
          /\ first = None
          /\ NoFiles /\ NoColor

\* image = Image.open(buf).convert("RGBA")
Open ==
    /\ pc = "call"
    /\ array' = Image_open(decoded, pos)
    /\ pos' = EndOf(decoded)
    /\ steps' = <<"decode">>
    /\ pc' = "opened"
    /\ UNCHANGED <<decoded, threshold, result, args, first, fileVars, colorVars>>

\* The crop with the keying moved in front of it.
Crop_after_keying ==
    /\ pc = "opened"
    /\ IF args.box_area = None
       THEN /\ pc' = "cropped"
            /\ UNCHANGED <<array, steps>>
       ELSE IF Inverted(args.box_area[1])
       THEN /\ pc' = "ValueError"
            /\ UNCHANGED <<array, steps>>
       ELSE IF args.transparency_color = None
       THEN /\ pc' = "cropped"
            /\ array' = Image_crop(array, args.box_area[1])
            /\ steps' = Append(steps, "crop")
       ELSE /\ pc' = "cropped"
            /\ array' = Image_crop(set_transparent_color(array, args.transparency_color[1]),
                                   args.box_area[1])
            /\ steps' = steps \o <<"key", "crop">>
    /\ UNCHANGED <<decoded, threshold, result, args, pos, first, fileVars, colorVars>>

\* if box_area is not None: image = image.crop(box_area)
Crop ==
    /\ pc = "opened"
    /\ IF args.box_area = None
       THEN /\ pc' = "cropped"
            /\ UNCHANGED <<array, steps>>
       ELSE IF Inverted(args.box_area[1])
       THEN /\ pc' = "ValueError"
            /\ UNCHANGED <<array, steps>>
       ELSE /\ pc' = "cropped"
            /\ array' = Image_crop(array, args.box_area[1])
            /\ steps' = Append(steps, "crop")
    /\ UNCHANGED <<decoded, threshold, result, args, pos, first, fileVars, colorVars>>

\* if resize_factor is not None: image = image.resize(size, HAMMING); a
\* resize to an extent of 0 raises ValueError unless the image has it already.
Resize ==
    /\ pc = "cropped"
    /\ IF args.resize_factor = None
       THEN /\ pc' = "resized"
            /\ UNCHANGED <<array, steps>>
       ELSE IF args.resize_factor[1] # 1 /\ (array.height = 0 \/ array.width = 0)
       THEN /\ pc' = "ValueError"
            /\ UNCHANGED <<array, steps>>
       ELSE /\ pc' = "resized"
            /\ array' = Image_resize(array, args.resize_factor[1])
            /\ steps' = Append(steps, "resize")
    /\ UNCHANGED <<decoded, threshold, result, args, pos, first, fileVars, colorVars>>

\* array = np.array(image)
\* if transparency_color is not None: array = set_transparent_color(array, ...)
Key ==
    /\ pc = "resized"
    /\ IF args.transparency_color = None
       THEN UNCHANGED <<array, steps>>
       ELSE /\ array' = set_transparent_color(array, args.transparency_color[1])
            /\ steps' = Append(steps, "key")
    /\ pc' = "keyed"
    /\ UNCHANGED <<decoded, threshold, result, args, pos, first, fileVars, colorVars>>

\* array = fix_alpha_channel(array)
Normalize ==
    /\ pc = "keyed"
    /\ array' = fix_alpha_channel(array, image_TRANSPARENCY_THRESHOLD)
    /\ steps' = Append(steps, "fix_alpha")
    /\ pc' = "normalized"
    /\ UNCHANGED <<decoded, threshold, result, args, pos, first, fileVars, colorVars>>

\* return trim_array(array); ys.min() raises ValueError on an empty ys.
Return ==
    /\ pc = "normalized"
    /\ IF np_where(array, image_TRANSPARENCY_THRESHOLD) = {}
       THEN /\ pc' = "ValueError"
            /\ UNCHANGED <<array, steps>>
       ELSE /\ pc' = "returned"
            /\ array' = trim_array(array, image_TRANSPARENCY_THRESHOLD)
            /\ steps' = Append(steps, "trim")
    /\ UNCHANGED <<decoded, threshold, result, args, pos, first, fileVars, colorVars>>

Ended == pc \in { "returned", "ValueError" }

\* What a call that has ended gave: the grid, or no grid when it raised;
\* `between` tells whether a call with other arguments was made since.
Outcome ==
    [ args |-> args, pc |-> pc, array |-> IF pc = "returned" THEN array ELSE Empty,
      between |-> FALSE ]

\* The arguments of a call made between two calls with the same arguments.
Between == { [ NoArgs EXCEPT !.resize_factor = Some(2) ] }

\* A further call on the same buffer: after the first call, one with the
\* same arguments or with others; after one with others, the first call's.
CallAgain ==
    /\ Ended
    /\ IF first = None
       THEN /\ first' = Some(Outcome)
            /\ args' \in { args } \cup Between
       ELSE /\ args # first[1].args
            /\ args' = first[1].args
            /\ first' = Some([ first[1] EXCEPT !.between = TRUE ])
    /\ pc' = "call"
    /\ steps' = << >>
    /\ UNCHANGED <<decoded, array, threshold, result, pos, fileVars, colorVars>>

NextPrep ==
    \/ Open
    \/ Crop
    \/ Resize
    \/ Key
    \/ Normalize
    \/ Return
    \/ CallAgain

SpecPrep == InitPrep /\ [][NextPrep]_vars

(***************************************************************************)
(* SpecFiles: pokemon.generate_pokemon_sprite_ansi_file, called again and  *)
(* again for one sprite.  `decoded` is the sprite's image in the archive,  *)
(* `steps` the reads and writes the call has made so far.  The files may   *)
(* hold anything when the first call begins: a text file left by an        *)
(* earlier version, a cached PNG of another image.                         *)
(***************************************************************************)
\* The text "old" and a 1 x 1 transparent image.
StaleText == << <<111>>, <<108>>, <<100>> >>
StalePng == Grid(1, 1, <<255, 0, 0, 0>>, <<255, 0, 0, 0>>, 0, 0, 0, 0)

InitFiles ==
    \E h \in 1 .. MaxPrepHeight, w \in 1 .. MaxPrepWidth, p0 \in Backgrounds, p1 \in Pixels :
       \E r \in Rects(h, w) :
          /\ decoded = Grid(h, w, p0, p1, r[1], r[2], r[3], r[4])
          /\ files \in [ png : { None, Some(decoded), Some(StalePng) },
                         txt_small : { None, Some(StaleText) },
                         txt_large : { None, Some(StaleText) } ]
          /\ locals = [ txt_small_exists |-> FALSE, txt_large_exists |-> FALSE ]
          /\ before = files
          /\ array = Empty
          /\ threshold = dots_TRANSPARENCY_THRESHOLD
          /\ result = << >>
          /\ pc = "start"
          /\ NoPrep /\ NoColor

\* txt_small_exists = ...; txt_large_exists = ...
\* if txt_small_exists and txt_large_exists: return
Exists ==
    /\ pc = "start"
    /\ locals' = [ txt_small_exists |-> files.txt_small # None,
                   txt_large_exists |-> files.txt_large # None ]
    /\ before' = files
    /\ pc' = IF files.txt_small # None /\ files.txt_large # None THEN "done" ELSE "fetch"
    /\ UNCHANGED <<decoded, array, threshold, result, prepVars, files, colorVars>>

\* image_data = get_pokemon_sprite_data(zipped_filename, sprite_filename)
GetSpriteData ==
    /\ pc = "fetch"
    /\ IF files.png = None
       THEN /\ files' = [ files EXCEPT !.png = Some(decoded) ]
            /\ array' = decoded
            /\ steps' = steps \o <<"read zip", "write png">>
       ELSE /\ array' = files.png[1]
            /\ steps' = Append(steps, "read png")
            /\ UNCHANGED files
    /\ pc' = "fetched"
    /\ UNCHANGED <<decoded, threshold, result, args, pos, first, locals, before, colorVars>>

\* image.get_image_array given no option: decode, fix_alpha_channel,
\* trim_array; `raised` when trim_array's reduction raises ValueError.
Raises(data) ==
    np_where(fix_alpha_channel(Image_open(data, 0), image_TRANSPARENCY_THRESHOLD),
             image_TRANSPARENCY_THRESHOLD) = {}

get_image_array(data) ==
    trim_array(fix_alpha_channel(Image_open(data, 0), image_TRANSPARENCY_THRESHOLD),
               image_TRANSPARENCY_THRESHOLD)

\* The preparation with the small text file written ahead of it.
GetImageArray_after_small ==
    /\ pc = "fetched"
    /\ IF locals.txt_small_exists
       THEN UNCHANGED <<files, steps>>
       ELSE /\ files' = [ files EXCEPT !.txt_small = Some(array_to_ansi_art_small(array)) ]
            /\ steps' = Append(steps, "write small")
    /\ IF Raises(array)
       THEN pc' = "ValueError" /\ UNCHANGED array
       ELSE pc' = "prepared" /\ array' = get_image_array(array)
    /\ UNCHANGED <<decoded, threshold, result, args, pos, first, locals, before, colorVars>>

\* image_array = get_image_array(image_data)
GetImageArray ==
    /\ pc = "fetched"
    /\ IF Raises(array)
       THEN pc' = "ValueError" /\ UNCHANGED array
       ELSE pc' = "prepared" /\ array' = get_image_array(array)
    /\ UNCHANGED <<decoded, threshold, result, prepVars, fileVars, colorVars>>

\* The small text file written whether or not it exists.
WriteSmall_always ==
    /\ pc = "prepared"
    /\ files' = [ files EXCEPT !.txt_small = Some(array_to_ansi_art_small(array)) ]
    /\ steps' = Append(steps, "write small")
    /\ pc' = "small_done"
    /\ UNCHANGED <<decoded, array, threshold, result, args, pos, first, locals, before, colorVars>>

\* if not txt_small_exists: write array_to_ansi_art_small(image_array)
WriteSmall ==
    /\ pc = "prepared"
    /\ IF locals.txt_small_exists
       THEN UNCHANGED <<files, steps>>
       ELSE /\ files' = [ files EXCEPT !.txt_small = Some(array_to_ansi_art_small(array)) ]
            /\ steps' = Append(steps, "write small")
    /\ pc' = "small_done"
    /\ UNCHANGED <<decoded, array, threshold, result, args, pos, first, locals, before, colorVars>>

\* if not txt_large_exists: write array_to_ansi_art_large(image_array)
WriteLarge ==
    /\ pc = "small_done"
    /\ IF locals.txt_large_exists
       THEN UNCHANGED <<files, steps>>
       ELSE /\ files' = [ files EXCEPT !.txt_large = Some(array_to_ansi_art_large(array)) ]
            /\ steps' = Append(steps, "write large")
    /\ pc' = "done"
    /\ UNCHANGED <<decoded, array, threshold, result, args, pos, first, locals, before, colorVars>>

\* The next call for the same sprite, in this run or a later one.
GenerateAgain ==
    /\ pc \in { "done", "ValueError" }
    /\ pc' = "start"
    /\ steps' = << >>
    /\ UNCHANGED <<decoded, array, threshold, result, args, pos, first, fileVars, colorVars>>

NextFiles ==
    \/ Exists
    \/ GetSpriteData
    \/ GetImageArray
    \/ WriteSmall
    \/ WriteLarge
    \/ GenerateAgain

SpecFiles == InitFiles /\ [][NextFiles]_vars

(***************************************************************************)
(* main.py, parse_color_hex.  A str is the sequence of its characters'     *)
(* code points.                                                            *)
(***************************************************************************)
\* The characters f, A, -, space and g.
Alphabet == { 102, 65, 45, 32, 103 }

\* The value of a hexadecimal digit, and -1 for any other character.
hex_value(c) ==
    IF 48 <= c /\ c <= 57 THEN c - 48
    ELSE IF 97 <= c /\ c <= 102 THEN c - 87
    ELSE IF 65 <= c /\ c <= 70 THEN c - 55
    ELSE -1

IsDigit(c) == hex_value(c) >= 0
IsSpace(c) == c \in { 32, 9, 10, 11, 12, 13 }
IsSign(c) == c \in { 43, 45 }

\* value[i:j] for 0 <= i <= j <= len(value)
py_slice(s, i, j) == SubSeq(s, i + 1, j)

RECURSIVE lstrip(_)
lstrip(s) == IF s # << >> /\ IsSpace(Head(s)) THEN lstrip(Tail(s)) ELSE s

RECURSIVE rstrip(_)
rstrip(s) ==
    IF s # << >> /\ IsSpace(s[Len(s)]) THEN rstrip(SubSeq(s, 1, Len(s) - 1)) ELSE s

RECURSIVE digits_value(_)
digits_value(s) ==
    IF s = << >> THEN 0 ELSE 16 * digits_value(SubSeq(s, 1, Len(s) - 1)) + hex_value(s[Len(s)])

\* int(s, base=16) for an ASCII s of at most two characters: Some(n), or None
\* when it raises ValueError.  Whitespace around the literal is stripped and
\* a sign may precede the digits; a "0x" prefix or an underscore needs more
\* than two characters to make a literal.
int16(s) ==
    LET t == rstrip(lstrip(s))
        signed == t # << >> /\ IsSign(t[1])
        d == IF signed THEN Tail(t) ELSE t
    IN  IF d # << >> /\ \A i \in DOMAIN d : IsDigit(d[i])
        THEN Some(IF signed /\ t[1] = 45 THEN 0 - digits_value(d) ELSE digits_value(d))
        ELSE None

\* parse_color_hex(value): Some(<<r, g, b>>), or None when it raises ValueError.
parse_color_hex(v) ==
    IF Len(v) # 6
    THEN None
    ELSE LET r == int16(py_slice(v, 0, 2))
             g == int16(py_slice(v, 2, 4))
             b == int16(py_slice(v, 4, 6))
         IN  IF r = None \/ g = None \/ b = None
             THEN None
             ELSE Some(<<r[1], g[1], b[1]>>)

(***************************************************************************)
(* SpecColor: parse_color_hex called on a string.                          *)
(***************************************************************************)
InitColor ==
    \E n \in 0 .. MaxColorLen :
       \E v \in [ 1 .. n -> Alphabet ] :
          /\ value = v
          /\ parsed = None
          /\ pc = "parse"
          /\ decoded = Empty
          /\ array = Empty
          /\ threshold = dots_TRANSPARENCY_THRESHOLD
          /\ result = << >>
          /\ NoPrep /\ NoFiles

ParseColorHex ==
    /\ pc = "parse"
    /\ IF parse_color_hex(value) = None
       THEN pc' = "ValueError" /\ UNCHANGED parsed
       ELSE pc' = "returned" /\ parsed' = parse_color_hex(value)[1]
    /\ UNCHANGED <<decoded, array, threshold, result, prepVars, fileVars, value>>

NextColor == ParseColorHex

SpecColor == InitColor /\ [][NextColor]_vars

(***************************************************************************)
(* Reading an output string back: its line breaks, its resets, and the     *)
(* pieces between them.                                                    *)
(***************************************************************************)
Reset == <<ESC, 0>>
LineBreak == <<10>>
Foreground(p) == <<ESC, 38, 2, p[1], p[2], p[3]>>
Background(p) == <<ESC, 48, 2, p[1], p[2], p[3]>>

Positions(s, t) == { i \in 1 .. Len(s) : s[i] = t }

\* The n-th position of S, counted from 1; beyond the last one, `beyond`.
NthPos(S, n, beyond) ==
    IF n > Cardinality(S)
    THEN beyond
    ELSE CHOOSE i \in S : Cardinality({ j \in S : j < i }) = n - 1

\* Line k (from 0) of s: what stands before the (k+1)-th line break and
\* after the k-th.
Line(s, k) ==
    LET breaks == Positions(s, LineBreak)
        from == IF k = 0 THEN 1 ELSE NthPos(breaks, k, Len(s)) + 1
        to == NthPos(breaks, k + 1, Len(s) + 1) - 1
    IN  SubSeq(s, from, to)

\* Piece n (from 1) of s: from its n-th reset up to the next reset.
Piece(s, n) ==
    LET resets == Positions(s, Reset)
    IN  SubSeq(s, NthPos(resets, n, Len(s) + 1), NthPos(resets, n + 1, Len(s) + 1) - 1)

\* The glyphs of a line: its characters.
Glyphs(line) == { i \in 1 .. Len(line) : Len(line[i]) = 1 }

RECURSIVE SumTo(_, _)
SumTo(f, n) == IF n = 0 THEN 0 ELSE f[n - 1] + SumTo(f, n - 1)

(***************************************************************************)
(* C1.  Half-block glyph selection: in the output of                       *)
(* array_to_ansi_art_small, the piece for column x of row pair k is a      *)
(* reset followed by: one space and no colour escape when both alphas are  *)
(* 0; foreground(upper) and the upper half block, no background escape,    *)
(* when only the upper alpha is not 0; foreground(lower) and the lower     *)
(* half block when only the lower alpha is not 0; foreground(upper),       *)
(* background(lower) and the upper half block when neither alpha is 0.     *)
(***************************************************************************)
HalfBlockExpected(upper, lower) ==
    IF upper[4] = 0 /\ lower[4] = 0 THEN <<Reset, <<32>> >>
    ELSE IF lower[4] = 0 THEN <<Reset, Foreground(upper), <<9600>> >>
    ELSE IF upper[4] = 0 THEN <<Reset, Foreground(lower), <<9604>> >>
    ELSE <<Reset, Foreground(upper), Background(lower), <<9600>> >>

RECURSIVE PairedLine(_, _, _)
PairedLine(arr, k, x) ==
    IF x = arr.width
    THEN << >>
    ELSE pixel_pair_to_ansi_block(arr.px[2 * k][x], arr.px[2 * k + 1][x])
         \o PairedLine(arr, k, x + 1)

C2_RowPairing ==
    pc = "small" =>
        /\ Cardinality(Positions(result, LineBreak)) = array.height \div 2
        /\ \A k \in 0 .. (array.height \div 2) - 1 :
              /\ Line(result, k) = PairedLine(array, k, 0) \o <<Reset>>
              /\ Cardinality(Glyphs(Line(result, k))) = array.width
        /\ Line(result, array.height \div 2) = <<Reset>>
        /\ result = array_to_ansi_art_small(
                        np_slice(array, 0, 2 * (array.height \div 2), 0, array.width))

C2_Witness ==
    /\ pc = "small"
    /\ array.height = 5
    /\ array.width = 3
    /\ array.px[4][0] # array.px[3][0]
    /\ Cardinality(Positions(result, LineBreak)) = 2

(***************************************************************************)
(* C4.  Solid-block rendering: array_to_ansi_art_large gives one line per  *)
(* source row and, per pixel in row order, exactly two spaces and no       *)
(* escape when the alpha is 0, otherwise exactly one foreground escape of  *)
(* the pixel's RGB followed by two full blocks.                            *)
(***************************************************************************)
LargeLen(p) == IF p[4] = 0 THEN 2 ELSE 3

\* Where pixel (y, x) starts in the output: after the rows above, each with
\* its reset and line break, and after the pixels to its left.
LargeOffset(arr, y, x) ==
    SumTo([ yy \in 0 .. y - 1 |->
              SumTo([ xx \in 0 .. arr.width - 1 |-> LargeLen(arr.px[yy][xx]) ],
                    arr.width) + 2 ], y)
    + SumTo([ xx \in 0 .. x - 1 |-> LargeLen(arr.px[y][xx]) ], x)

C4_SolidBlock ==
    pc = "large" =>
        /\ Cardinality(Positions(result, LineBreak)) = array.height
        /\ Len(result) = LargeOffset(array, array.height, 0) + 1
        /\ \A y \in 0 .. array.height - 1 : \A x \in 0 .. array.width - 1 :
              LET p == array.px[y][x]
                  o == LargeOffset(array, y, x)
              IN  IF p[4] = 0
                  THEN SubSeq(result, o + 1, o + 2) = << <<32>>, <<32>> >>
                  ELSE SubSeq(result, o + 1, o + 3)
                           = <<Foreground(p), <<9608>>, <<9608>> >>
        /\ (array.height = 1 /\ array.width = 1) =>
              Line(result, 0) =
                  (IF array.px[0][0][4] = 0
                   THEN << <<32>>, <<32>> >>
                   ELSE <<Foreground(array.px[0][0]), <<9608>>, <<9608>> >>)
                  \o <<Reset>>

C4_Witness ==
    /\ pc = "large"
    /\ array.height >= 2
    /\ \E c \in Cells(array.height, array.width) : array.px[c[1]][c[2]][4] = 0
    /\ \E c \in Cells(array.height, array.width) : array.px[c[1]][c[2]][4] = 255
    /\ Len(result) > 3

(***************************************************************************)
(* C3.  Output framing, for the three renderers and every grid, also one   *)
(* that gives no output row: the output is its rows, each ended by a reset *)
(* and exactly one line break, and then one final reset; so it ends with a *)
(* reset and has as many line breaks as output rows.                       *)
(***************************************************************************)
OutputRows ==
    CASE pc = "small" -> array.height \div 2
      [] pc = "large" -> array.height
      [] pc = "dots" -> array.height \div 4
      [] OTHER -> 0

Framed(s, n) ==
    /\ Len(s) >= 1
    /\ s[Len(s)] = Reset
    /\ Cardinality(Positions(s, LineBreak)) = n
    /\ \A i \in Positions(s, LineBreak) : i > 1 /\ s[i - 1] = Reset
    /\ IF n = 0 THEN s = <<Reset>> ELSE s[Len(s) - 1] = LineBreak

C3_Framing == pc \in { "small", "large", "dots" } => Framed(result, OutputRows)

C3_Witness ==
    /\ pc = "dots"
    /\ array.height = 8
    /\ array.width = 4
    /\ Cardinality(Positions(result, LineBreak)) = 2
    /\ Len(result) = 13

(***************************************************************************)
(* The glyph of block (i, j) in the output of array_to_dots_art: a colour  *)
(* escape and a character.                                                 *)
(***************************************************************************)
DotsPos(arr, i, j) == i * (2 * (arr.width \div 2) + 2) + 2 * j + 1
DotsColour(i, j) == result[DotsPos(array, i, j)]
DotsChar(i, j) == result[DotsPos(array, i, j) + 1]
Blocks(arr) == (0 .. (arr.height \div 4) - 1) \X (0 .. (arr.width \div 2) - 1)
BlockPixel(arr, b, dy, dx) == arr.px[4 * b[1] + dy][2 * b[2] + dx]

\* The block whose two centre rows are white and whose top and bottom rows
\* are black, every pixel visible.
CentreWhite(arr, b, th) ==
    \A dy \in 0 .. 3 : \A dx \in 0 .. 1 :
        LET p == BlockPixel(arr, b, dy, dx)
        IN  /\ p[4] > th
            /\ SubSeq(p, 1, 3) = IF dy \in { 1, 2 } THEN <<255, 255, 255>> ELSE <<0, 0, 0>>

(***************************************************************************)
(* C5, as stated: the glyph of a block with white centre rows and black    *)
(* top and bottom rows, all visible, is coloured 127 or 128 on every       *)
(* channel.                                                                *)
(***************************************************************************)
C5_AsStated ==
    pc = "dots" =>
        \A b \in Blocks(array) :
            CentreWhite(array, b, threshold) =>
                \A c \in 1 .. 3 : DotsColour(b[1], b[2])[3 + c] \in { 127, 128 }

(***************************************************************************)
(* C5, amended: that glyph is coloured 170 on every channel (total weight  *)
(* 12, centre weight 8).                                                   *)
(***************************************************************************)
C5_CentreWhite170 ==
    pc = "dots" =>
        \A b \in Blocks(array) :
            CentreWhite(array, b, threshold) =>
                DotsColour(b[1], b[2]) = <<ESC, 38, 2, 170, 170, 170>>

C5_Witness ==
    /\ pc = "dots"
    /\ \E b \in Blocks(array) :
          /\ CentreWhite(array, b, threshold)
          /\ DotsColour(b[1], b[2])[4] = 170

(***************************************************************************)
(* C6.  Dot renderer glyph colour: each channel is the truncated weighted  *)
(* mean of that channel over all 8 positions of the block, row weights     *)
(* 1, 2, 2, 1, whatever the alphas and the threshold; so changing only     *)
(* alphas leaves every colour as it is, a block with no visible pixel      *)
(* still has its colour escape, and a block of one colour has that colour. *)
(***************************************************************************)
WeightedMean(arr, b, c) ==
    ( 1 * (BlockPixel(arr, b, 0, 0)[c] + BlockPixel(arr, b, 0, 1)[c])
    + 2 * (BlockPixel(arr, b, 1, 0)[c] + BlockPixel(arr, b, 1, 1)[c])
    + 2 * (BlockPixel(arr, b, 2, 0)[c] + BlockPixel(arr, b, 2, 1)[c])
    + 1 * (BlockPixel(arr, b, 3, 0)[c] + BlockPixel(arr, b, 3, 1)[c]) ) \div 12

WithAlpha(arr, a) ==
    [ arr EXCEPT !.px =
        [ y \in 0 .. arr.height - 1 |->
            [ x \in 0 .. arr.width - 1 |-> [ arr.px[y][x] EXCEPT ![4] = a ] ] ] ]

C6_GlyphColour ==
    pc = "dots" =>
        /\ \A b \in Blocks(array) :
              /\ DotsColour(b[1], b[2])
                     = <<ESC, 38, 2, WeightedMean(array, b, 1), WeightedMean(array, b, 2),
                         WeightedMean(array, b, 3)>>
              /\ \A p \in Pixels :
                    (\A dy \in 0 .. 3 : \A dx \in 0 .. 1 :
                        SubSeq(BlockPixel(array, b, dy, dx), 1, 3) = SubSeq(p, 1, 3))
                    => DotsColour(b[1], b[2]) = Foreground(p)
        /\ \A a \in { 0, 255 } :
              LET other == WithAlpha(array, a)
              IN  \A b \in Blocks(array) :
                      dots_glyph(other, 255 - threshold, 4 * b[1], 2 * b[2])[1]
                          = DotsColour(b[1], b[2])

C6_Witness ==
    /\ pc = "dots"
    /\ \E b \in Blocks(array) :
          /\ \A dy \in 0 .. 3 : \A dx \in 0 .. 1 : BlockPixel(array, b, dy, dx)[4] <= threshold
          /\ \E dy \in 0 .. 3 : \E dx \in 0 .. 1 :
                BlockPixel(array, b, dy, dx)[1] # BlockPixel(array, b, 0, 0)[1]
          /\ DotsColour(b[1], b[2])[4] > 0

(***************************************************************************)
(* C7.  Dot renderer bit pattern: the character of a block is the code     *)
(* point 0x2800 | pattern, the bit of (column dx, row dy) being set iff    *)
(* that pixel's alpha is strictly greater than the threshold (127 by       *)
(* default); rows 0..3 of the left column are bits 0, 1, 2, 6 and of the   *)
(* right column bits 3, 4, 5, 7; all visible gives 0x28FF, none 0x2800.    *)
(***************************************************************************)
BrailleBit(dx, dy) == IF dx = 0 THEN <<0, 1, 2, 6>>[dy + 1] ELSE <<3, 4, 5, 7>>[dy + 1]

Pow2(n) == <<1, 2, 4, 8, 16, 32, 64, 128>>[n + 1]

Pattern(arr, b, th) ==
    SumTo([ k \in 0 .. 7 |->
              IF BlockPixel(arr, b, k \div 2, k % 2)[4] > th
              THEN Pow2(BrailleBit(k % 2, k \div 2))
              ELSE 0 ], 8)

C7_BitPattern ==
    /\ pc = "decoded" => threshold = 127
    /\ pc = "dots" =>
          \A b \in Blocks(array) :
              /\ DotsChar(b[1], b[2]) = <<10240 + Pattern(array, b, threshold)>>
              /\ (\A dy \in 0 .. 3 : \A dx \in 0 .. 1 :
                     BlockPixel(array, b, dy, dx)[4] > threshold)
                 => DotsChar(b[1], b[2]) = <<10495>>
              /\ (\A dy \in 0 .. 3 : \A dx \in 0 .. 1 :
                     BlockPixel(array, b, dy, dx)[4] <= threshold)
                 => DotsChar(b[1], b[2]) = <<10240>>

C7_Witness ==
    /\ pc = "dots"
    /\ \E b \in Blocks(array) :
          /\ BlockPixel(array, b, 3, 0)[4] > threshold
          /\ BlockPixel(array, b, 0, 1)[4] = threshold
          /\ DotsChar(b[1], b[2]) = <<10240 + 64>>

(***************************************************************************)
(* C8.  Dot renderer block tiling: array_to_dots_art gives exactly         *)
(* height div 4 lines of exactly width div 2 glyphs; the glyph at          *)
(* (line i, position j) depends only on rows 4i..4i+3 and columns          *)
(* 2j..2j+1; the pixels of a partial block at the bottom or right edge     *)
(* never influence the output, and no pixel outside the grid is read.      *)
(***************************************************************************)
C8_BlockTiling ==
    pc = "dots" =>
        LET glyphs == array.width \div 2
            lines == array.height \div 4
        IN  /\ Len(result) = lines * (2 * glyphs + 2) + 1
            /\ Positions(result, LineBreak) = { i * (2 * glyphs + 2) : i \in 1 .. lines }
            /\ \A b \in Blocks(array) :
                  /\ Len(DotsColour(b[1], b[2])) = 6
                  /\ Len(DotsChar(b[1], b[2])) = 1
                  /\ <<DotsColour(b[1], b[2]), DotsChar(b[1], b[2])>>
                        = SubSeq(array_to_dots_art(
                                     np_slice(array, 4 * b[1], 4 * b[1] + 4,
                                              2 * b[2], 2 * b[2] + 2),
                                     threshold), 1, 2)
            /\ \A i \in 1 .. Len(result) :
                  \/ i = Len(result)
                  \/ i % (2 * glyphs + 2) \in { 0, 2 * glyphs + 1 }
                  \/ \E b \in Blocks(array) : i - DotsPos(array, b[1], b[2]) \in { 0, 1 }

C8_Witness ==
    /\ pc = "dots"
    /\ array.height = 5
    /\ array.width = 3
    /\ array.px[4][2] # array.px[0][0]
    /\ Len(result) = 5

(***************************************************************************)
(* C9.  Alpha normalisation: after fix_alpha_channel every pixel whose     *)
(* alpha was below 128 has alpha 0 and every other pixel alpha 255, and no *)
(* R, G or B value and no dimension of the grid has changed.               *)
(***************************************************************************)
C9_FixAlpha ==
    pc = "fixed" =>
        /\ array.height = decoded.height
        /\ array.width = decoded.width
        /\ DOMAIN array.px = 0 .. decoded.height - 1
        /\ \A y \in DOMAIN array.px : DOMAIN array.px[y] = 0 .. decoded.width - 1
        /\ \A c \in Cells(decoded.height, decoded.width) :
              /\ SubSeq(array.px[c[1]][c[2]], 1, 3) = SubSeq(decoded.px[c[1]][c[2]], 1, 3)
              /\ array.px[c[1]][c[2]][4] \in { 0, 255 }
              /\ decoded.px[c[1]][c[2]][4] < 128 => array.px[c[1]][c[2]][4] = 0
              /\ decoded.px[c[1]][c[2]][4] >= 128 => array.px[c[1]][c[2]][4] = 255

C9_Witness ==
    /\ pc = "fixed"
    /\ \E c \in Cells(decoded.height, decoded.width) : decoded.px[c[1]][c[2]][4] = 127 /\ array.px[c[1]][c[2]][4] = 0
    /\ \E c \in Cells(decoded.height, decoded.width) : decoded.px[c[1]][c[2]][4] = 128 /\ array.px[c[1]][c[2]][4] = 255

(***************************************************************************)
(* C10.  Trim to content: for a grid with at least one pixel of alpha >    *)
(* 128, trim_array returns exactly the rows y_min..y_max and columns       *)
(* x_min..x_max, the extremes of the coordinates of those pixels; its      *)
(* height is y_max - y_min + 1, its width x_max - x_min + 1, its lower and *)
(* right bounds do not exceed the grid, and it holds every such pixel.     *)
(***************************************************************************)
Content(arr) == { c \in Cells(arr.height, arr.width) : arr.px[c[1]][c[2]][4] > 128 }

C10_TrimToContent ==
    /\ pc = "ValueError" => Content(decoded) = {}
    /\ pc = "trimmed" =>
          /\ Content(decoded) # {}
          /\ \E y_min, y_max \in 0 .. decoded.height - 1 :
             \E x_min, x_max \in 0 .. decoded.width - 1 :
                /\ \A c \in Content(decoded) :
                      y_min <= c[1] /\ c[1] <= y_max /\ x_min <= c[2] /\ c[2] <= x_max
                /\ \E c \in Content(decoded) : c[1] = y_min
                /\ \E c \in Content(decoded) : c[1] = y_max
                /\ \E c \in Content(decoded) : c[2] = x_min
                /\ \E c \in Content(decoded) : c[2] = x_max
                /\ array.height = y_max - y_min + 1
                /\ array.width = x_max - x_min + 1
                /\ y_max + 1 <= decoded.height
                /\ x_max + 1 <= decoded.width
                /\ DOMAIN array.px = 0 .. array.height - 1
                /\ \A y \in DOMAIN array.px : DOMAIN array.px[y] = 0 .. array.width - 1
                /\ \A c \in Cells(array.height, array.width) :
                      array.px[c[1]][c[2]] = decoded.px[y_min + c[1]][x_min + c[2]]
                /\ \A c \in Content(decoded) :
                      <<c[1] - y_min, c[2] - x_min>> \in Content(array)

C10_Witness ==
    /\ pc = "trimmed"
    /\ decoded.height = 5
    /\ decoded.width = 3
    /\ array.height = 2
    /\ array.width = 2
    /\ decoded.px[4][2][4] > 128
    /\ decoded.px[2][0][4] <= 128

(***************************************************************************)
(* C11.  Empty-image failure: a call of get_image_array on an image whose  *)
(* every pixel is transparent (alpha below the threshold) ends with a      *)
(* dedicated EmptyImageError, raised by a check of the empty case, and not *)
(* with the error of a min/max over an empty array.  As stated, for the    *)
(* calls given no box; the code has no such check and the call ends with   *)
(* numpy's ValueError.                                                     *)
(***************************************************************************)
AllTransparent(arr) ==
    \A c \in Cells(arr.height, arr.width) :
       arr.px[c[1]][c[2]][4] < image_TRANSPARENCY_THRESHOLD

C11_EmptyImageError ==
    ( /\ pc \in { "returned", "ValueError", "EmptyImageError" }
      /\ args.box_area = None
      /\ AllTransparent(decoded) )
       => pc = "EmptyImageError"

(***************************************************************************)
(* C12.  Rectangular crop: for a box (left, upper, right, lower) with      *)
(* 0 <= left <= right <= width and 0 <= upper <= lower <= height, the      *)
(* cropped grid is exactly rows upper .. lower - 1 and columns             *)
(* left .. right - 1 of the decoded grid (right and lower are exclusive).  *)
(***************************************************************************)
Cropped == pc = "cropped" /\ steps = <<"decode", "crop">>

C12_Crop ==
    (Cropped /\ InRange(decoded, args.box_area[1])) =>
       LET left == args.box_area[1][1]
           upper == args.box_area[1][2]
           right == args.box_area[1][3]
           lower == args.box_area[1][4]
       IN  /\ array.height = lower - upper
           /\ array.width = right - left
           /\ DOMAIN array.px = 0 .. lower - upper - 1
           /\ \A y \in DOMAIN array.px :
                 /\ DOMAIN array.px[y] = 0 .. right - left - 1
                 /\ \A x \in DOMAIN array.px[y] :
                       array.px[y][x] = decoded.px[upper + y][left + x]

\* The box (0, 0, 1, 1) on a grid of shape (2, 2) whose top-left pixel differs
\* from its others gives the top-left 1 x 1 grid.
C12_Witness ==
    /\ Cropped
    /\ args.box_area = Some(<<0, 0, 1, 1>>)
    /\ decoded.height = 2
    /\ decoded.width = 2
    /\ decoded.px[0][0] # decoded.px[1][1]
    /\ array.height = 1
    /\ array.width = 1
    /\ array.px[0][0] = decoded.px[0][0]

(***************************************************************************)
(* C13.  Invalid crop box: a call given a box that is not inside the       *)
(* image (a negative coordinate, right > width or lower > height) fails    *)
(* with InvalidBoxError at the crop and returns no grid.  As stated, for   *)
(* the boxes that are not inverted; the code hands the box to Pillow's     *)
(* crop, which pads the region with transparent pixels, and goes on.       *)
(***************************************************************************)
C13_InvalidBoxError ==
    ( /\ args.box_area # None
      /\ ~ Inverted(args.box_area[1])
      /\ ~ InRange(decoded, args.box_area[1])
      /\ pc \notin { "call", "opened" } )
       => pc = "InvalidBoxError"

(***************************************************************************)
(* C14.  Transparency keying: set_transparent_color sets the alpha of a    *)
(* pixel to 0 exactly when its red, green and blue all equal the target    *)
(* colour's; every other pixel keeps its alpha, and no pixel's red, green  *)
(* or blue changes.  Each pixel's result depends on that pixel alone.      *)
(***************************************************************************)
Matches(p, color) == p[1] = color[1] /\ p[2] = color[2] /\ p[3] = color[3]

C14_Keying ==
    pc = "transparent" =>
       LET color == args.transparency_color[1]
       IN  /\ array.height = decoded.height
           /\ array.width = decoded.width
           /\ DOMAIN array.px = DOMAIN decoded.px
           /\ \A y \in DOMAIN array.px :
                 /\ DOMAIN array.px[y] = DOMAIN decoded.px[y]
                 /\ \A x \in DOMAIN array.px[y] :
                       LET p == decoded.px[y][x]
                           q == array.px[y][x]
                       IN  /\ q[1] = p[1] /\ q[2] = p[2] /\ q[3] = p[3]
                           /\ q[4] = IF Matches(p, color) THEN 0 ELSE p[4]

\* Keyed on (0, 0, 255): a visible pixel of that colour lost its alpha and a
\* pixel equal to the colour in red and green alone kept it.
C14_Witness ==
    /\ pc = "transparent"
    /\ args.transparency_color = Some(<<0, 0, 255>>)
    /\ \E c \in Cells(decoded.height, decoded.width) :
          /\ decoded.px[c[1]][c[2]] = <<0, 0, 255, 128>>
          /\ array.px[c[1]][c[2]] = <<0, 0, 255, 0>>
    /\ \E c \in Cells(decoded.height, decoded.width) :
          /\ decoded.px[c[1]][c[2]] = <<0, 0, 0, 255>>
          /\ array.px[c[1]][c[2]] = <<0, 0, 0, 255>>

(***************************************************************************)
(* C15.  Pipeline order.  As stated: with all options requested,           *)
(* get_image_array applies decode, transparency keying, crop, resize,      *)
(* alpha normalization, trim in this order, the keying before the crop and *)
(* before the resize.  As the code has it: decode, crop, resize,           *)
(* transparency keying, alpha normalization, trim, the keying after the    *)
(* crop and after the resize.                                              *)
(***************************************************************************)
StatedOrder == <<"decode", "key", "crop", "resize", "fix_alpha", "trim">>
CodeOrder == <<"decode", "crop", "resize", "key", "fix_alpha", "trim">>

Rank(order, step) == CHOOSE i \in DOMAIN order : order[i] = step

\* The steps of the log were applied in the order given, none twice.
InOrder(order, log) ==
    \A i \in DOMAIN log : \A j \in DOMAIN log :
       i < j => Rank(order, log[i]) < Rank(order, log[j])

AllOptions ==
    /\ args.transparency_color # None
    /\ args.box_area # None
    /\ args.resize_factor # None

Factor == IF args.resize_factor = None THEN 1 ELSE args.resize_factor[1]

AllOpaque(arr) ==
    \A c \in Cells(arr.height, arr.width) :
       arr.px[c[1]][c[2]][4] > image_TRANSPARENCY_THRESHOLD

Repeated == Ended /\ first # None /\ args = first[1].args

Wrote(name) == \E i \in DOMAIN steps : steps[i] = name

C18_NoPartialOutput ==
    pc = "ValueError" =>
       /\ files.txt_small = before.txt_small
       /\ files.txt_large = before.txt_large
       /\ ~ Wrote("write small")
       /\ ~ Wrote("write large")

\* The preparation failed in a call that found the small text file missing
\* (and would have written it) and that had read the sprite.
C18_Witness ==
    /\ pc = "ValueError"
    /\ ~ locals.txt_small_exists
    /\ files.txt_small = None
    /\ Len(steps) > 0

SixHexDigits(v) == Len(v) = 6 /\ \A i \in DOMAIN v : IsDigit(v[i])

PairValue(v, k) == 16 * hex_value(v[2 * k - 1]) + hex_value(v[2 * k])

C20_AsStated ==
    /\ pc = "ValueError" => ~ SixHexDigits(value)
    /\ pc = "returned" =>
          /\ SixHexDigits(value)
          /\ \A k \in 1 .. 3 :
                parsed[k] \in 0 .. 255 /\ parsed[k] = PairValue(value, k)

C22_TrimsAgree ==
    pc = "main trimmed" =>
       /\ array = trim_array(decoded, image_TRANSPARENCY_THRESHOLD)
       /\ array.height = SetMax({ c[1] : c \in Content(decoded) })
                         - SetMin({ c[1] : c \in Content(decoded) }) + 1
       /\ array.width = SetMax({ c[2] : c \in Content(decoded) })
                        - SetMin({ c[2] : c \in Content(decoded) }) + 1

(***************************************************************************)
(* C23.  Visibility is consistent across the renderers on prepared grids:  *)
(* in every grid get_image_array returns every alpha is 0 or 255, and a    *)
(* pixel is visible to the dot renderer at its default threshold           *)
(* (alpha > 127) iff it is visible to the half-block and the solid-block   *)
(* renderers (alpha # 0) iff it counts as content for the trim             *)
(* (alpha > 128).                                                          *)
(***************************************************************************)
VisibleToDots(y, x) == dots_mask(array, dots_TRANSPARENCY_THRESHOLD, y, x)

VisibleToLarge(y, x) == large_pixel(array.px[y][x]) # WIDE_EMPTY_BLOCK

VisibleToSmall(y, x) ==
    pixel_pair_to_ansi_block(array.px[y][x], array.px[y][x]) # ANSI_RESET_CODE \o EMPTY_BLOCK

C23_Visibility ==
    pc = "returned" =>
       LET content == np_where(array, image_TRANSPARENCY_THRESHOLD)
       IN  \A c \in Cells(array.height, array.width) :
              /\ array.px[c[1]][c[2]][4] \in { 0, 255 }
              /\ VisibleToDots(c[1], c[2]) <=> VisibleToSmall(c[1], c[2])
              /\ VisibleToSmall(c[1], c[2]) <=> VisibleToLarge(c[1], c[2])
              /\ VisibleToLarge(c[1], c[2]) <=> c \in content

\* A returned grid with a visible and an invisible pixel, from an image
\* whose visible pixels had alpha 128, the one alpha on which the three
\* thresholds differ before the normalization.
C23_Witness ==
    /\ pc = "returned"
    /\ args = NoArgs
    /\ \E c \in Cells(array.height, array.width) : array.px[c[1]][c[2]][4] = 0
    /\ \E c \in Cells(array.height, array.width) : array.px[c[1]][c[2]][4] = 255
    /\ \A c \in Cells(decoded.height, decoded.width) :
          decoded.px[c[1]][c[2]][4] \in { 0, 128 }

====
